---- MODULE Spec2Model ----
(***************************************************************************)
(* Model of grosbeak/routers/stand_strategist.py: the Stand Strategist     *)
(* router (users, get, update) over the two MongoDB collections ss_team    *)
(* and ss_tim of each event database.                                      *)
(*                                                                         *)
(* A document and a data-point dict are functions from field names to      *)
(* values; every value is a string.  A collection is the sequence of its   *)
(* documents in natural (insertion) order.                                 *)
(***************************************************************************)
EXTENDS Integers, Sequences, FiniteSets, TLC

VARIABLES
    client,     \* client[event_key] = [ss_team |-> <<doc,...>>, ss_tim |-> <<doc,...>>]
    call,       \* the update request handled last and how it ended
    prev,       \* the update request that ended before that one
    pre,        \* client as it was when that request started
    post,       \* client as it was when that request ended
    response,   \* the response of a GET that is being returned
    completed,  \* the update requests that have completed without raising
    ncalls,     \* number of update requests taken so far
    inflight    \* inflight[w]: the update request worker w is handling, step by step

vars == <<client, call, prev, pre, post, response, completed, ncalls, inflight>>

-----------------------------------------------------------------------------
(* Bounds and input domains *)

MaxCalls == 2
MaxEntries == 2

Workers == {"w1", "w2"}
Users == {"alice", "bob"}
Namespaces == {"ev1", "ev2"}
Teams == {"100", "200"}
Matches == {"12"}

\* Data-point dicts a request body may carry.  The first one names a match,
\* which identifies no team record; the last one uses every field name the
\* handlers and the collections treat specially.
DataPointMaps ==
    { [a |-> "1", b |-> "2", match_number |-> "7"],
      [a |-> "9"],
      ("_id" :> "x") @@
          [c |-> "3", username |-> "alice", team_number |-> "200", match_number |-> "99"] }

PartialMaps(K, V) == UNION {[S -> V] : S \in SUBSET K}

Orderings(S) ==
    {s \in [1..Cardinality(S) -> S] : \A i, j \in 1..Cardinality(S) : i # j => s[i] # s[j]}

RECURSIVE SumOver(_, _)
SumOver(f, S) ==
    IF S = {} THEN 0
    ELSE LET k == CHOOSE k \in S : TRUE IN f[k] + SumOver(f, S \ {k})

-----------------------------------------------------------------------------
(* StandStrategistData *)

StandStrategistData(teamData, timData) == [teamData |-> teamData, timData |-> timData]

EmptyData == StandStrategistData(<<>>, <<>>)

TimEntries(timData) ==
    SumOver([m \in DOMAIN timData |-> Cardinality(DOMAIN timData[m])], DOMAIN timData)

Entries(data) == Cardinality(DOMAIN data.teamData) + TimEntries(data.timData)

Views ==
    {v \in [teamData : PartialMaps(Teams, DataPointMaps),
            timData : PartialMaps(Matches, PartialMaps(Teams, DataPointMaps))] :
        Entries(v) <= MaxEntries}

\* The order in which a request body lists its keys (dict iteration order).
ItemOrders(data) ==
    [teams : Orderings(DOMAIN data.teamData),
     matches : Orderings(DOMAIN data.timData),
     tim : {o \in [DOMAIN data.timData -> UNION {Orderings(S) : S \in SUBSET Teams}] :
               \A m \in DOMAIN data.timData : o[m] \in Orderings(DOMAIN data.timData[m])}]

AllOrders == UNION {ItemOrders(d) : d \in Views}

-----------------------------------------------------------------------------
(* dict helpers *)

\* d.update(e): the entries of e win.
DictUpdate(d, e) == e @@ d

\* d with the keys popped; the pop of a missing key raises KeyError.
PopRaises(d, keys) == \E k \in keys : k \notin DOMAIN d
PopAll(d, keys) == [k \in DOMAIN d \ keys |-> d[k]]

-----------------------------------------------------------------------------
(* The MongoDB collection operations the router uses *)

Matching(doc, filter) ==
    \A k \in DOMAIN filter : k \in DOMAIN doc /\ doc[k] = filter[k]

FindIgnoresFilter(coll, filter) == coll

\* collection.find(filter): the matching documents in natural order.
Find(coll, filter) == SelectSeq(coll, LAMBDA doc : Matching(doc, filter))

FirstMatchNever(coll, filter) == 0

FirstMatch(coll, filter) ==
    IF \E i \in 1..Len(coll) : Matching(coll[i], filter)
    THEN CHOOSE i \in 1..Len(coll) :
            /\ Matching(coll[i], filter)
            /\ \A j \in 1..(i - 1) : ~Matching(coll[j], filter)
    ELSE 0

\* A server-generated ObjectId: never equal to a value a request can carry.
NewObjectId(coll) == "oid" \o ToString(Len(coll) + 1)

ReplaceOne(filter, replacement) == [filter |-> filter, replacement |-> replacement]

\* One ReplaceOne(filter, replacement, upsert=True) applied to coll.
\* A matched document keeps its _id, and a replacement that names another _id
\* is refused; an unmatched one is inserted, under the replacement's _id when
\* it has one (refused if that _id is taken), else under a new ObjectId.
ApplyReplaceOneMerges(coll, op) ==
    LET i == FirstMatch(coll, op.filter)
    IN  IF i # 0
        THEN [coll |-> [coll EXCEPT ![i] = op.replacement @@ coll[i]], raised |-> FALSE]
        ELSE [coll |-> Append(coll, ("_id" :> NewObjectId(coll)) @@ op.replacement),
              raised |-> FALSE]

ApplyReplaceOneReissuesId(coll, op) ==
    LET i == FirstMatch(coll, op.filter)
        doc == ("_id" :> NewObjectId(coll)) @@ op.replacement
    IN  IF i # 0
        THEN [coll |-> [coll EXCEPT ![i] = doc], raised |-> FALSE]
        ELSE [coll |-> Append(coll, doc), raised |-> FALSE]

ApplyReplaceOneInsertOnly(coll, op) ==
    IF FirstMatch(coll, op.filter) # 0
    THEN [coll |-> coll, raised |-> FALSE]
    ELSE [coll |-> Append(coll, ("_id" :> NewObjectId(coll)) @@ op.replacement),
          raised |-> FALSE]

ApplyReplaceOne(coll, op) ==
    LET i == FirstMatch(coll, op.filter)
        r == op.replacement
    IN  IF i # 0
        THEN IF "_id" \in DOMAIN r /\ r["_id"] # coll[i]["_id"]
             THEN [coll |-> coll, raised |-> TRUE]
             ELSE [coll |-> [coll EXCEPT ![i] = ("_id" :> coll[i]["_id"]) @@ r],
                   raised |-> FALSE]
        ELSE IF "_id" \in DOMAIN r
             THEN IF \E j \in 1..Len(coll) : coll[j]["_id"] = r["_id"]
                  THEN [coll |-> coll, raised |-> TRUE]
                  ELSE [coll |-> Append(coll, r), raised |-> FALSE]
             ELSE [coll |-> Append(coll, ("_id" :> NewObjectId(coll)) @@ r),
                   raised |-> FALSE]

\* The operations of an ordered bulk write from the i-th on: the write stops
\* at the first refused operation, and what was applied before stays applied.
RECURSIVE ApplyOps(_, _, _)
ApplyOps(coll, ops, i) ==
    IF i > Len(ops) THEN [coll |-> coll, raised |-> FALSE]
    ELSE LET r == ApplyReplaceOne(coll, ops[i])
         IN  IF r.raised THEN r ELSE ApplyOps(r.coll, ops, i + 1)

\* collection.bulk_write(ops); pymongo refuses an empty list of operations.
bulk_write(coll, ops) ==
    IF ops = <<>> THEN [coll |-> coll, raised |-> TRUE]
    ELSE ApplyOps(coll, ops, 1)

-----------------------------------------------------------------------------
(* users *)

UsernamesOf(coll) == {coll[i]["username"] : i \in 1..Len(coll)}

UsersSetTeamOnly(db) == UsernamesOf(Find(db.ss_team, <<>>))

\* The set built by the two loops of users().
UsersSet(db) == UsernamesOf(Find(db.ss_team, <<>>)) \cup UsernamesOf(Find(db.ss_tim, <<>>))

-----------------------------------------------------------------------------
(* get *)

TeamUnwantedKeepsUsername == {"_id", "team_number"}

TeamUnwanted == {"_id", "team_number", "username"}
TimUnwanted == {"_id", "match_number", "team_number", "username"}

\* The dict built by a loop that assigns d[key(doc)] = value(doc) for each
\* document in order: a later document overwrites an earlier one.
LastWith(docs, key, k) ==
    docs[CHOOSE i \in 1..Len(docs) :
            /\ docs[i][key] = k
            /\ \A j \in (i + 1)..Len(docs) : docs[j][key] # k]

GetTeamData(docs) ==
    [t \in {docs[i]["team_number"] : i \in 1..Len(docs)} |->
        PopAll(LastWith(docs, "team_number", t), TeamUnwanted)]

GetTimData(docs) ==
    [m \in {docs[i]["match_number"] : i \in 1..Len(docs)} |->
        LET ofMatch == SelectSeq(docs, LAMBDA doc : doc["match_number"] = m)
        IN  [t \in {ofMatch[i]["team_number"] : i \in 1..Len(ofMatch)} |->
                PopAll(LastWith(ofMatch, "team_number", t), TimUnwanted)]]

get(db, username) ==
    LET teamDocs == Find(db.ss_team, [username |-> username])
        timDocs == Find(db.ss_tim, [username |-> username])
    IN  IF \/ \E i \in 1..Len(teamDocs) : PopRaises(teamDocs[i], TeamUnwanted)
           \/ \E i \in 1..Len(timDocs) : PopRaises(timDocs[i], TimUnwanted)
        THEN [raised |-> TRUE, view |-> EmptyData]
        ELSE [raised |-> FALSE,
              view |-> StandStrategistData(GetTeamData(teamDocs), GetTimData(timDocs))]

-----------------------------------------------------------------------------
(* update *)

TeamDocumentCallerWins(teamData, team, username) ==
    DictUpdate([team_number |-> team, username |-> username], teamData)

TeamDocument(teamData, team, username) ==
    DictUpdate(teamData, [team_number |-> team, username |-> username])

TeamFilterAnyUser(team, username) == [team_number |-> team]

TeamFilter(team, username) == [team_number |-> team, username |-> username]

TimDocumentCallerWins(timData, match, team, username) ==
    DictUpdate([match_number |-> match, team_number |-> team, username |-> username], timData)

TimDocumentWithoutMatch(timData, match, team, username) ==
    DictUpdate(timData, [team_number |-> team, username |-> username])

TimDocument(timData, match, team, username) ==
    DictUpdate(timData, [match_number |-> match, team_number |-> team, username |-> username])

TimFilter(match, team, username) ==
    [match_number |-> match, team_number |-> team, username |-> username]

\* bulk_ops after the loop over data.teamData.items().
TeamBulkOps(data, username, order) ==
    [i \in 1..Len(order.teams) |->
        LET team == order.teams[i]
        IN  ReplaceOne(TeamFilter(team, username),
                       TeamDocument(data.teamData[team], team, username))]

\* bulk_ops after the nested loops over data.timData.items(), from the i-th match on.
RECURSIVE TimBulkOpsFrom(_, _, _, _)
TimBulkOpsFrom(data, username, order, i) ==
    IF i > Len(order.matches) THEN <<>>
    ELSE LET match == order.matches[i]
             teams == order.tim[match]
         IN  [j \in 1..Len(teams) |->
                 ReplaceOne(TimFilter(match, teams[j], username),
                            TimDocument(data.timData[match][teams[j]], match, teams[j], username))]
             \o TimBulkOpsFrom(data, username, order, i + 1)

TimBulkOps(data, username, order) == TimBulkOpsFrom(data, username, order, 1)

WriteIfAnyUnguarded(coll, ops) ==
    LET r == bulk_write(coll, ops)
    IN  [coll |-> r.coll, raised |-> r.raised, writes |-> 1]

\* if bulk_ops: collection.bulk_write(bulk_ops)
WriteIfAny(coll, ops) ==
    IF ops # <<>>
    THEN LET r == bulk_write(coll, ops)
         IN  [coll |-> r.coll, raised |-> r.raised, writes |-> 1]
    ELSE [coll |-> coll, raised |-> FALSE, writes |-> 0]

\* The whole handler on database db: the team bulk write, then, unless it
\* raised, the TIM bulk write.
update(db, data, username, order) ==
    LET w1 == WriteIfAny(db.ss_team, TeamBulkOps(data, username, order))
    IN  IF w1.raised
        THEN [db |-> [db EXCEPT !.ss_team = w1.coll], raised |-> TRUE,
              raised_in |-> "team", team_writes |-> w1.writes, tim_writes |-> 0]
        ELSE LET w2 == WriteIfAny(db.ss_tim, TimBulkOps(data, username, order))
             IN  [db |-> [ss_team |-> w1.coll, ss_tim |-> w2.coll],
                  raised |-> w2.raised,
                  raised_in |-> IF w2.raised THEN "tim" ELSE "none",
                  team_writes |-> w1.writes, tim_writes |-> w2.writes]

-----------------------------------------------------------------------------
(* The requests.  The service handles one request at a time: a handler runs
   to its end, the response is returned, and the next request is taken. *)

NoResponse ==
    [op |-> "none", username |-> "", event_key |-> "", raised |-> FALSE,
     users |-> <<>>, view |-> EmptyData]

NoOrder == [teams |-> <<>>, matches |-> <<>>, tim |-> <<>>]

Call(op, username, event_key, in, r) ==
    [op |-> op, username |-> username, event_key |-> event_key,
     data |-> in.data, order |-> in.order,
     raised |-> r.raised, raised_in |-> r.raised_in,
     team_writes |-> r.team_writes, tim_writes |-> r.tim_writes, solo |-> r.solo]

NoCall ==
    Call("none", "", "", [data |-> EmptyData, order |-> NoOrder],
         [raised |-> FALSE, raised_in |-> "none", team_writes |-> 0, tim_writes |-> 0,
          solo |-> TRUE])

EmptyClient == [n \in Namespaces |-> [ss_team |-> <<>>, ss_tim |-> <<>>]]

Idle ==
    [pc |-> "idle", username |-> "", event_key |-> "",
     in |-> [data |-> EmptyData, order |-> NoOrder],
     ops |-> <<>>, next |-> 0, team_writes |-> 0, tim_writes |-> 0,
     start |-> EmptyClient, solo |-> TRUE]

Completed(username, event_key, data) ==
    [username |-> username, event_key |-> event_key, entries |-> Entries(data)]

Init ==
    /\ client = EmptyClient
    /\ call = NoCall
    /\ prev = NoCall
    /\ pre = client
    /\ post = client
    /\ response = NoResponse
    /\ completed = {}
    /\ inflight = [w \in Workers |-> Idle]
    /\ ncalls = 0

UsersRequestListsEveryDocument(event_key) ==
    /\ response = NoResponse
    /\ response' = [op |-> "users", username |-> "", event_key |-> event_key,
                    raised |-> FALSE,
                    users |-> [i \in 1..Len(client[event_key].ss_team) |->
                                  client[event_key].ss_team[i]["username"]]
                              \o [i \in 1..Len(client[event_key].ss_tim) |->
                                     client[event_key].ss_tim[i]["username"]],
                    view |-> EmptyData]
    /\ UNCHANGED <<client, call, prev, pre, post, completed, ncalls, inflight>>

\* GET /stand-strategist/users
UsersRequest(event_key) ==
    /\ response = NoResponse
    /\ \E listed \in Orderings(UsersSet(client[event_key])) :
          response' = [op |-> "users", username |-> "", event_key |-> event_key,
                       raised |-> FALSE, users |-> listed, view |-> EmptyData]
    /\ UNCHANGED <<client, call, prev, pre, post, completed, ncalls, inflight>>

GetRequestTakesDocuments(username, event_key) ==
    /\ response = NoResponse
    /\ LET r == get(client[event_key], username)
           left(coll) == SelectSeq(coll, LAMBDA doc : ~Matching(doc, [username |-> username]))
       IN  /\ response' = [op |-> "get", username |-> username, event_key |-> event_key,
                            raised |-> r.raised, users |-> <<>>, view |-> r.view]
           /\ client' = [client EXCEPT ![event_key] =
                             [ss_team |-> left(client[event_key].ss_team),
                              ss_tim |-> left(client[event_key].ss_tim)]]
    /\ UNCHANGED <<call, prev, pre, post, completed, ncalls, inflight>>

\* GET /stand-strategist
GetRequest(username, event_key) ==
    /\ response = NoResponse
    /\ LET r == get(client[event_key], username)
       IN  response' = [op |-> "get", username |-> username, event_key |-> event_key,
                        raised |-> r.raised, users |-> <<>>, view |-> r.view]
    /\ UNCHANGED <<client, call, prev, pre, post, completed, ncalls, inflight>>

\* The response of a GET has been returned to the caller.
ResponseReturned ==
    /\ response # NoResponse
    /\ response' = NoResponse
    /\ UNCHANGED <<client, call, prev, pre, post, completed, ncalls, inflight>>

\* What one PUT carries besides its query: the body and the order in which
\* the body lists its keys.
UpdateInputs ==
    {[data |-> x[1], order |-> x[2]] :
        x \in {y \in Views \X AllOrders : y[2] \in ItemOrders(y[1])}}

\* PUT /stand-strategist
UpdateRequest(in, username, event_key) ==
    /\ response = NoResponse
    /\ ncalls < MaxCalls
    /\ LET r == update(client[event_key], in.data, username, in.order)
       IN  /\ client' = [client EXCEPT ![event_key] = r.db]
           /\ call' = Call("update", username, event_key, in, [solo |-> TRUE] @@ r)
           /\ completed' = IF r.raised THEN completed
                           ELSE completed \cup {Completed(username, event_key, in.data)}
    /\ prev' = call
    /\ pre' = client
    /\ post' = client'
    /\ ncalls' = ncalls + 1
    /\ UNCHANGED <<response, inflight>>

Next ==
    \/ \E event_key \in Namespaces : UsersRequest(event_key)
    \/ \E username \in Users, event_key \in Namespaces : GetRequest(username, event_key)
    \/ ResponseReturned
    \/ \E in \in UpdateInputs, username \in Users, event_key \in Namespaces :
          UpdateRequest(in, username, event_key)

Spec == Init /\ [][Next]_vars

-----------------------------------------------------------------------------
(* The update handler step by step: several workers serve requests against
   the same storage, which applies one operation of a bulk write at a time;
   a bulk write in progress can fail because the storage becomes unavailable. *)

ConcUsers == {"alice"}
ConcNamespaces == {"ev1"}
ConcTeams == {"100"}

ConcBody(data) ==
    /\ DOMAIN data.teamData \subseteq ConcTeams
    /\ \A m \in DOMAIN data.timData : DOMAIN data.timData[m] \subseteq ConcTeams

ConcUpdateInputs == {in \in UpdateInputs : ConcBody(in.data)}

Collection(w) == IF inflight[w].pc = "team" THEN "ss_team" ELSE "ss_tim"

\* The handler of worker w ends: its outcome becomes the last call.
Finish(w, raised) ==
    LET f == inflight[w]
    IN  /\ call' = Call("update", f.username, f.event_key, f.in,
                        [raised |-> raised,
                         raised_in |-> IF raised THEN f.pc ELSE "none",
                         team_writes |-> f.team_writes, tim_writes |-> f.tim_writes,
                         solo |-> f.solo])
        /\ prev' = call
        /\ pre' = f.start
        /\ post' = client'
        /\ completed' = IF raised THEN completed
                        ELSE completed \cup {Completed(f.username, f.event_key, f.in.data)}
        /\ inflight' = [inflight EXCEPT ![w] = Idle]

ToTimWriteSkipped(w, f) == Finish(w, FALSE)

\* The handler of worker w has no bulk write left to issue before the TIM one.
ToTimWrite(w, f) ==
    LET timOps == TimBulkOps(f.in.data, f.username, f.in.order)
    IN  IF timOps # <<>>
        THEN /\ inflight' = [inflight EXCEPT ![w] =
                                [f EXCEPT !.pc = "tim", !.ops = timOps, !.next = 1,
                                          !.tim_writes = 1]]
             /\ UNCHANGED <<call, prev, pre, post, completed>>
        ELSE Finish(w, FALSE)

\* PUT /stand-strategist is taken by worker w, which runs the handler up to
\* its first bulk write.
BeginUpdate(w, in, username, event_key) ==
    LET teamOps == TeamBulkOps(in.data, username, in.order)
        alone == \A v \in Workers \ {w} : inflight[v].pc = "idle"
        others == [v \in Workers |-> IF inflight[v].pc = "idle" THEN inflight[v]
                                     ELSE [inflight[v] EXCEPT !.solo = FALSE]]
        f == [pc |-> "team", username |-> username, event_key |-> event_key, in |-> in,
              ops |-> teamOps, next |-> 1, team_writes |-> 1, tim_writes |-> 0,
              start |-> client, solo |-> alone]
    IN  /\ response = NoResponse
        /\ ncalls < MaxCalls
        /\ inflight[w].pc = "idle"
        /\ ncalls' = ncalls + 1
        /\ IF teamOps # <<>>
           THEN /\ inflight' = [others EXCEPT ![w] = f]
                /\ UNCHANGED <<call, prev, pre, post, completed>>
           ELSE LET g == [f EXCEPT !.team_writes = 0]
                    timOps == TimBulkOps(in.data, username, in.order)
                IN  IF timOps # <<>>
                    THEN /\ inflight' = [others EXCEPT ![w] =
                                            [g EXCEPT !.pc = "tim", !.ops = timOps,
                                                      !.tim_writes = 1]]
                         /\ UNCHANGED <<call, prev, pre, post, completed>>
                    ELSE /\ call' = Call("update", username, event_key, in,
                                         [raised |-> FALSE, raised_in |-> "none",
                                          team_writes |-> 0, tim_writes |-> 0,
                                          solo |-> alone])
                         /\ prev' = call
                         /\ pre' = client
                         /\ post' = client
                         /\ completed' = completed \cup {Completed(username, event_key, in.data)}
                         /\ inflight' = others
        /\ UNCHANGED <<client, response>>

\* The storage applies the next operation of the bulk write of worker w; a
\* refused operation ends the bulk write, which raises.
ApplyNext(w) ==
    LET f == inflight[w]
        coll == client[f.event_key][Collection(w)]
        r == ApplyReplaceOne(coll, f.ops[f.next])
    IN  /\ f.pc \in {"team", "tim"}
        /\ f.next <= Len(f.ops)
        /\ client' = [client EXCEPT ![f.event_key][Collection(w)] = r.coll]
        /\ IF r.raised
           THEN Finish(w, TRUE)
           ELSE /\ inflight' = [inflight EXCEPT ![w].next = f.next + 1]
                /\ UNCHANGED <<call, prev, pre, post, completed>>
        /\ UNCHANGED <<response, ncalls>>

\* The bulk write of worker w returns, all its operations applied, and the
\* handler runs on to its next bulk write or to its end.
BulkWriteReturns(w) ==
    LET f == inflight[w]
    IN  /\ f.pc \in {"team", "tim"}
        /\ f.next = Len(f.ops) + 1
        /\ UNCHANGED <<client, response, ncalls>>
        /\ IF f.pc = "team" THEN ToTimWrite(w, f) ELSE Finish(w, FALSE)

StorageFailsRollsBack(w) ==
    /\ inflight[w].pc \in {"team", "tim"}
    /\ client' = [client EXCEPT ![inflight[w].event_key] =
                      inflight[w].start[inflight[w].event_key]]
    /\ UNCHANGED <<response, ncalls>>
    /\ Finish(w, TRUE)

StorageFailsGoesOn(w) ==
    /\ inflight[w].pc \in {"team", "tim"}
    /\ UNCHANGED <<client, response, ncalls>>
    /\ IF inflight[w].pc = "team" THEN ToTimWrite(w, inflight[w]) ELSE Finish(w, TRUE)

\* The storage becomes unavailable to the bulk write of worker w, which
\* raises; the operations applied so far stay applied.
StorageFails(w) ==
    /\ inflight[w].pc \in {"team", "tim"}
    /\ UNCHANGED <<client, response, ncalls>>
    /\ Finish(w, TRUE)

ConcNext ==
    \/ \E event_key \in ConcNamespaces : UsersRequest(event_key)
    \/ \E username \in ConcUsers, event_key \in ConcNamespaces : GetRequest(username, event_key)
    \/ ResponseReturned
    \/ \E w \in Workers, in \in ConcUpdateInputs, username \in ConcUsers,
          event_key \in ConcNamespaces : BeginUpdate(w, in, username, event_key)
    \/ \E w \in Workers : ApplyNext(w)
    \/ \E w \in Workers : BulkWriteReturns(w)
    \/ \E w \in Workers : StorageFails(w)

ConcSpec == Init /\ [][ConcNext]_vars

-----------------------------------------------------------------------------
(* Vocabulary of the properties *)

Has(doc, name, value) == name \in DOMAIN doc /\ doc[name] = value

Less(d, names) == [k \in DOMAIN d \ names |-> d[k]]

Range(seq) == {seq[i] : i \in 1..Len(seq)}

TeamIdNames == {"team_number", "username"}
TimIdNames == {"match_number", "team_number", "username"}

\* The update request that ended last, its database after it and before it.
UpdateDone == call.op = "update"
UpdateOk == call.op = "update" /\ ~call.raised
DbAfter == post[call.event_key]
DbBefore == pre[call.event_key]

\* A fetch is being answered, and it was asked of the database and for the
\* user of the last update, no other update lying in between.
GetAfterUpdate ==
    /\ response.op = "get"
    /\ call.op = "update"
    /\ response.username = call.username
    /\ response.event_key = call.event_key

TeamRecordsAt(coll, team, username) ==
    {i \in 1..Len(coll) : Has(coll[i], "team_number", team) /\ Has(coll[i], "username", username)}

TimRecordsAt(coll, match, team, username) ==
    {i \in 1..Len(coll) : /\ Has(coll[i], "match_number", match)
                          /\ Has(coll[i], "team_number", team)
                          /\ Has(coll[i], "username", username)}

RecordsOf(coll, username) == {i \in 1..Len(coll) : Has(coll[i], "username", username)}

TimKeys(timData) == {<<m, t>> \in Matches \X Teams : m \in DOMAIN timData /\ t \in DOMAIN timData[m]}

\* No data-point dict of the body uses a field name that get pops from the
\* records of its collection, and every match of timData lists at least one team.
PlainView(data) ==
    /\ \A t \in DOMAIN data.teamData : DOMAIN data.teamData[t] \cap TeamUnwanted = {}
    /\ \A k \in TimKeys(data.timData) : DOMAIN data.timData[k[1]][k[2]] \cap TimUnwanted = {}
    /\ \A m \in DOMAIN data.timData : DOMAIN data.timData[m] # {}

-----------------------------------------------------------------------------
(* C1: round trip *)

\* C1 as stated: for any body V and username U, from a database holding no
\* record of U, update(V, U) followed directly by fetch(U) returns V.
C1_RoundTripAnyView ==
    (GetAfterUpdate /\ ~call.raised
        /\ RecordsOf(DbBefore.ss_team, call.username) = {}
        /\ RecordsOf(DbBefore.ss_tim, call.username) = {})
    => (~response.raised /\ response.view = call.data)

\* C1 amended: the round trip holds for every body whose data-point dicts use
\* none of the names _id, team_number, username (nor, in timData,
\* match_number) and whose timData has no match without teams.
C1_RoundTripPlainView ==
    (GetAfterUpdate /\ ~call.raised /\ PlainView(call.data)
        /\ RecordsOf(DbBefore.ss_team, call.username) = {}
        /\ RecordsOf(DbBefore.ss_tim, call.username) = {})
    => (~response.raised /\ response.view = call.data)

C1_Witness ==
    /\ GetAfterUpdate /\ ~call.raised /\ PlainView(call.data)
    /\ RecordsOf(DbBefore.ss_team, call.username) = {}
    /\ RecordsOf(DbBefore.ss_tim, call.username) = {}
    /\ \E t \in DOMAIN call.data.teamData : "match_number" \in DOMAIN call.data.teamData[t]
    /\ TimKeys(call.data.timData) # {}
    /\ response.view = call.data

-----------------------------------------------------------------------------
(* C2: full replace *)

TeamRecordHolds(coll, team, username, points) ==
    /\ TeamRecordsAt(coll, team, username) # {}
    /\ \A i \in TeamRecordsAt(coll, team, username) :
          Less(coll[i], {"_id"} \cup TeamIdNames) = points

TimRecordHolds(coll, match, team, username, points) ==
    /\ TimRecordsAt(coll, match, team, username) # {}
    /\ \A i \in TimRecordsAt(coll, match, team, username) :
          Less(coll[i], {"_id"} \cup TimIdNames) = points

\* C2 as stated: after update(V, U) every record V touches holds exactly the
\* data-point dict V supplies for it, whatever it held before.
C2_HoldsExactlySupplied ==
    UpdateOk =>
        /\ \A t \in DOMAIN call.data.teamData :
              TeamRecordHolds(DbAfter.ss_team, t, call.username, call.data.teamData[t])
        /\ \A k \in TimKeys(call.data.timData) :
              TimRecordHolds(DbAfter.ss_tim, k[1], k[2], call.username,
                             call.data.timData[k[1]][k[2]])

\* C2 amended: after update(V, U) every record V touches holds exactly the
\* data points V supplies for it, those named _id, team_number or username
\* (and match_number in timData) excepted, which are not kept as data points;
\* nothing the record held before survives.
C2_FullReplace ==
    UpdateOk =>
        /\ \A t \in DOMAIN call.data.teamData :
              TeamRecordHolds(DbAfter.ss_team, t, call.username,
                              Less(call.data.teamData[t], {"_id"} \cup TeamIdNames))
        /\ \A k \in TimKeys(call.data.timData) :
              TimRecordHolds(DbAfter.ss_tim, k[1], k[2], call.username,
                             Less(call.data.timData[k[1]][k[2]], {"_id"} \cup TimIdNames))

\* A record that held b is replaced by a dict without b, in each collection.
C2_Witness ==
    /\ UpdateOk
    /\ \E t \in DOMAIN call.data.teamData :
          /\ "b" \notin DOMAIN call.data.teamData[t]
          /\ \E i \in TeamRecordsAt(DbBefore.ss_team, t, call.username) :
                "b" \in DOMAIN DbBefore.ss_team[i]
    /\ \E k \in TimKeys(call.data.timData) :
          /\ "b" \notin DOMAIN call.data.timData[k[1]][k[2]]
          /\ \E i \in TimRecordsAt(DbBefore.ss_tim, k[1], k[2], call.username) :
                "b" \in DOMAIN DbBefore.ss_tim[i]

-----------------------------------------------------------------------------
(* C3: isolation by username *)

\* C3: an update for one username leaves what fetch returns for every other
\* username unchanged, also when the body carries a field named username.
C3_IsolationByUsername ==
    UpdateDone =>
        \A u \in Users \ {call.username}, n \in Namespaces :
            get(post[n], u) = get(pre[n], u)

\* bob updates with a dict that names alice as username, alice having data.
C3_Witness ==
    /\ UpdateOk
    /\ call.username = "bob"
    /\ \E t \in DOMAIN call.data.teamData : Has(call.data.teamData[t], "username", "alice")
    /\ get(DbBefore, "alice").view.teamData # <<>>
    /\ DbAfter # DbBefore

-----------------------------------------------------------------------------
(* C4: uniqueness *)

-----------------------------------------------------------------------------
(* C5: idempotence *)

\* C5: the same update handled once more, right after, leaves the database
\* as the first one left it and ends as the first one ended.
C5_Idempotent ==
    UpdateDone =>
        LET again == update(DbAfter, call.data, call.username, call.order)
        IN  again.db = DbAfter /\ again.raised = call.raised

\* An update that changed a database that already held records.
C5_Witness ==
    /\ UpdateOk
    /\ Entries(call.data) = 2
    /\ DbBefore.ss_team # <<>>
    /\ DbAfter # DbBefore
    /\ update(DbAfter, call.data, call.username, call.order).db = DbAfter

-----------------------------------------------------------------------------
(* C6: identifying fields are authoritative *)

\* A value the body put under name in points is not what the record holds
\* under name, unless it is the value the record is identified by.
CallerValueKept(doc, points, name) ==
    name \in DOMAIN points /\ Has(doc, name, points[name])

\* C6 as stated: every record an update writes carries the team, the match
\* and the username of its place in the body and of the query, and no value
\* the body put under team_number, match_number or username is stored.
C6_NoCallerIdentifierStored ==
    UpdateOk =>
        /\ \A t \in DOMAIN call.data.teamData :
              /\ TeamRecordsAt(DbAfter.ss_team, t, call.username) # {}
              /\ \A i \in TeamRecordsAt(DbAfter.ss_team, t, call.username) :
                    /\ ~(CallerValueKept(DbAfter.ss_team[i], call.data.teamData[t], "team_number")
                            /\ call.data.teamData[t]["team_number"] # t)
                    /\ ~(CallerValueKept(DbAfter.ss_team[i], call.data.teamData[t], "username")
                            /\ call.data.teamData[t]["username"] # call.username)
                    /\ ~CallerValueKept(DbAfter.ss_team[i], call.data.teamData[t], "match_number")
        /\ \A k \in TimKeys(call.data.timData) :
              /\ TimRecordsAt(DbAfter.ss_tim, k[1], k[2], call.username) # {}
              /\ \A i \in TimRecordsAt(DbAfter.ss_tim, k[1], k[2], call.username) :
                    \A name \in TimIdNames :
                        CallerValueKept(DbAfter.ss_tim[i], call.data.timData[k[1]][k[2]], name)
                            => call.data.timData[k[1]][k[2]][name] =
                                  [match_number |-> k[1], team_number |-> k[2],
                                   username |-> call.username][name]

\* C6 amended: a team record carries the team of its key in teamData and the
\* username of the query, a match-team record the match and the team of its
\* keys in timData and the username of the query; a value the body put under
\* one of these identifying names is not stored.  match_number identifies no
\* team record: in a teamData dict it is a data point and is stored as given.
C6_IdentifiersAuthoritative ==
    UpdateOk =>
        /\ \A t \in DOMAIN call.data.teamData :
              /\ TeamRecordsAt(DbAfter.ss_team, t, call.username) # {}
              /\ \A i \in TeamRecordsAt(DbAfter.ss_team, t, call.username) :
                    /\ \A name \in TeamIdNames :
                          CallerValueKept(DbAfter.ss_team[i], call.data.teamData[t], name)
                              => call.data.teamData[t][name] =
                                    [team_number |-> t, username |-> call.username][name]
                    /\ "match_number" \in DOMAIN call.data.teamData[t]
                          => CallerValueKept(DbAfter.ss_team[i], call.data.teamData[t],
                                             "match_number")
        /\ \A k \in TimKeys(call.data.timData) :
              /\ TimRecordsAt(DbAfter.ss_tim, k[1], k[2], call.username) # {}
              /\ \A i \in TimRecordsAt(DbAfter.ss_tim, k[1], k[2], call.username) :
                    \A name \in TimIdNames :
                        CallerValueKept(DbAfter.ss_tim[i], call.data.timData[k[1]][k[2]], name)
                            => call.data.timData[k[1]][k[2]][name] =
                                  [match_number |-> k[1], team_number |-> k[2],
                                   username |-> call.username][name]

\* bob's body names another team, another match and alice inside a dict of
\* teamData and inside a dict of timData.
C6_Witness ==
    /\ UpdateOk
    /\ call.username = "bob"
    /\ \E t \in DOMAIN call.data.teamData :
          /\ Has(call.data.teamData[t], "username", "alice")
          /\ "team_number" \in DOMAIN call.data.teamData[t]
          /\ call.data.teamData[t]["team_number"] # t
    /\ \E k \in TimKeys(call.data.timData) :
          /\ Has(call.data.timData[k[1]][k[2]], "username", "alice")
          /\ "match_number" \in DOMAIN call.data.timData[k[1]][k[2]]
          /\ call.data.timData[k[1]][k[2]]["match_number"] # k[1]

-----------------------------------------------------------------------------
(* C7: enumeration completeness *)

CompletedIn(username, event_key, least) ==
    \E c \in completed :
        c.username = username /\ c.event_key = event_key /\ c.entries >= least

\* C7 as stated: once an update of alice and an update of bob have completed
\* in a namespace, whatever their bodies, users lists both.
C7_BothListedAnyView ==
    (response.op = "users"
        /\ CompletedIn("alice", response.event_key, 0)
        /\ CompletedIn("bob", response.event_key, 0))
    => {"alice", "bob"} \subseteq Range(response.users)

\* C7 amended: once an update of alice and an update of bob have completed in
\* a namespace, each with a body that holds at least one data-point dict,
\* users lists both.
C7_BothListed ==
    (response.op = "users"
        /\ CompletedIn("alice", response.event_key, 1)
        /\ CompletedIn("bob", response.event_key, 1))
    => {"alice", "bob"} \subseteq Range(response.users)

C7_Witness ==
    /\ response.op = "users"
    /\ CompletedIn("alice", response.event_key, 1)
    /\ CompletedIn("bob", response.event_key, 1)
    /\ Range(response.users) = {"alice", "bob"}
    /\ RecordsOf(client[response.event_key].ss_team, "alice") = {}

-----------------------------------------------------------------------------
(* C8: partial application on failure *)

\* The collection after the first k operations of ops.
AfterPrefix(coll, ops, k) == ApplyOps(coll, SubSeq(ops, 1, k), 1).coll

\* The last update ran with no other update under way, its write to ss_team
\* returned and its write to ss_tim raised.
TimWriteFailed ==
    /\ UpdateDone /\ call.solo
    /\ call.team_writes = 1
    /\ call.raised_in = "tim"

LastTeamOps == TeamBulkOps(call.data, call.username, call.order)
LastTimOps == TimBulkOps(call.data, call.username, call.order)

\* C8 as stated: when the write to ss_team succeeds and the write to ss_tim
\* fails, the update fails, ss_team keeps every upsert of the first batch and
\* ss_tim is as it was before the call.
C8_TimUntouchedOnFailure ==
    TimWriteFailed =>
        /\ call.raised
        /\ DbAfter.ss_team = AfterPrefix(DbBefore.ss_team, LastTeamOps, Len(LastTeamOps))
        /\ DbAfter.ss_tim = DbBefore.ss_tim

\* C8 amended: when the write to ss_team succeeds and the write to ss_tim
\* fails, the update fails, ss_team keeps every upsert of the first batch and
\* ss_tim holds the upserts of the second batch that were applied before the
\* failure, a prefix of the batch that may be empty or the whole batch.
C8_PartialApplication ==
    TimWriteFailed =>
        /\ call.raised
        /\ DbAfter.ss_team = AfterPrefix(DbBefore.ss_team, LastTeamOps, Len(LastTeamOps))
        /\ \E k \in 0..Len(LastTimOps) :
              DbAfter.ss_tim = AfterPrefix(DbBefore.ss_tim, LastTimOps, k)

\* The write to ss_tim failed after the write to ss_team had changed a
\* collection, ss_tim holding records already.
C8_Witness ==
    /\ TimWriteFailed
    /\ DbAfter.ss_team # DbBefore.ss_team
    /\ DbBefore.ss_tim # <<>>
    /\ DbAfter.ss_tim = DbBefore.ss_tim

-----------------------------------------------------------------------------
(* C9: empty batches issue no write *)

\* C9: an update issues at most one bulk write per collection, and one for a
\* collection exactly when the list of operations it built for it is not
\* empty (it builds none for ss_tim when the write to ss_team raised); with
\* no data-point dict in the body it writes nothing, changes nothing and
\* does not raise.
C9_EmptyBatchNoWrite ==
    UpdateDone =>
        /\ call.team_writes \in {0, 1} /\ call.tim_writes \in {0, 1}
        /\ call.team_writes = 1 <=> DOMAIN call.data.teamData # {}
        /\ call.tim_writes = 1 <=>
              (TimKeys(call.data.timData) # {} /\ call.raised_in # "team")
        /\ Entries(call.data) = 0 => (~call.raised /\ post = pre)

\* A body whose only match lists no team, handled on a database with records.
C9_Witness ==
    /\ UpdateDone
    /\ DOMAIN call.data.timData # {}
    /\ TimKeys(call.data.timData) = {}
    /\ DOMAIN call.data.teamData = {}
    /\ call.team_writes = 0 /\ call.tim_writes = 0
    /\ ~call.raised
    /\ DbBefore.ss_tim # <<>>

-----------------------------------------------------------------------------
(* C10: fetch is an exact projection *)

\* C10: fetch(U) does not raise and returns teamData[t] exactly for the teams
\* t with a team record (t, U) and timData[m][t] exactly for the (m, t) with
\* a match-team record (m, t, U), each being the record without its _id and
\* identifying fields; with no record of U both maps are empty.
C10_FetchExactProjection ==
    response.op = "get" =>
        LET team == client[response.event_key].ss_team
            tim == client[response.event_key].ss_tim
            mine(coll) == {i \in 1..Len(coll) : coll[i]["username"] = response.username}
            view == response.view
        IN  /\ ~response.raised
            /\ DOMAIN view.teamData = {team[i]["team_number"] : i \in mine(team)}
            /\ \A i \in mine(team) :
                  view.teamData[team[i]["team_number"]] =
                      [k \in DOMAIN team[i] \ {"_id", "team_number", "username"} |-> team[i][k]]
            /\ DOMAIN view.timData = {tim[i]["match_number"] : i \in mine(tim)}
            /\ \A m \in DOMAIN view.timData :
                  DOMAIN view.timData[m] =
                      {tim[i]["team_number"] : i \in {j \in mine(tim) : tim[j]["match_number"] = m}}
            /\ \A i \in mine(tim) :
                  view.timData[tim[i]["match_number"]][tim[i]["team_number"]] =
                      [k \in DOMAIN tim[i] \ {"_id", "match_number", "team_number", "username"}
                          |-> tim[i][k]]
            /\ (mine(team) = {} /\ mine(tim) = {}) => view = EmptyData

\* A fetch that returns records of both collections from a database that
\* also holds another user's records.
C10_Witness ==
    /\ response.op = "get"
    /\ response.view.teamData # <<>>
    /\ response.view.timData # <<>>
    /\ \E u \in Users \ {response.username} :
          RecordsOf(client[response.event_key].ss_team, u) # {}

-----------------------------------------------------------------------------
(* C11: users lists exactly the usernames that own a record *)

Owners(store) ==
    {u \in Users : RecordsOf(store.ss_team, u) # {} \/ RecordsOf(store.ss_tim, u) # {}}

\* C11: the list users returns has no duplicates and holds exactly the
\* usernames with at least one record in ss_team or in ss_tim of the database.
C11_ExactUsernames ==
    response.op = "users" =>
        /\ Range(response.users) = Owners(client[response.event_key])
        /\ Len(response.users) = Cardinality(Owners(client[response.event_key]))

\* alice has records in ss_tim only, bob in both collections, and the other
\* database holds nothing.
C11_Witness ==
    /\ response.op = "users"
    /\ Len(response.users) = 2
    /\ RecordsOf(client[response.event_key].ss_team, "alice") = {}
    /\ RecordsOf(client[response.event_key].ss_tim, "alice") # {}
    /\ RecordsOf(client[response.event_key].ss_team, "bob") # {}
    /\ RecordsOf(client[response.event_key].ss_tim, "bob") # {}
    /\ \A n \in Namespaces \ {response.event_key} : Owners(client[n]) = {}

-----------------------------------------------------------------------------
(* C12: reads have no side effect *)

\* C12: a step that answers users or get, for whatever username and
\* event_key, leaves every collection of every database as it was.
C12_ReadsChangeNothing ==
    [][(response' # response /\ response' # NoResponse) => client' = client]_vars

\* A get answered with records of both collections, the databases being as
\* the last update left them.
C12_Witness ==
    /\ response.op = "get"
    /\ response.view.teamData # <<>>
    /\ response.view.timData # <<>>
    /\ UpdateOk
    /\ client = post
    /\ client # pre

-----------------------------------------------------------------------------
(* C13: last writer wins per key *)

\* This step applies the next upsert of the bulk write of worker w.
Applies(w) ==
    /\ inflight[w].pc \in {"team", "tim"}
    /\ inflight'[w].pc = inflight[w].pc
    /\ inflight'[w].next = inflight[w].next + 1

\* coll holds one document for the key of op, and it is op's replacement in
\* full, whatever the document of that key held before.
HoldsInFull(coll, op) ==
    /\ \E i \in 1..Len(coll) : Matching(coll[i], op.filter)
    /\ \A i \in 1..Len(coll) :
          Matching(coll[i], op.filter) => Less(coll[i], {"_id"}) = Less(op.replacement, {"_id"})

\* The two update requests of one username that ended last ran at the same
\* time and both returned, and no request is being handled.
BothCompleted ==
    /\ call.op = "update" /\ prev.op = "update"
    /\ ~call.raised /\ ~prev.raised
    /\ ~call.solo
    /\ call.username = prev.username /\ call.event_key = prev.event_key
    /\ \A w \in Workers : inflight[w].pc = "idle"

\* Every record both requests touched holds the data points of one of them.
OneOfTheTwo ==
    /\ \A t \in DOMAIN call.data.teamData \cap DOMAIN prev.data.teamData :
          \E c \in {call, prev} :
              TeamRecordHolds(client[call.event_key].ss_team, t, call.username,
                              Less(c.data.teamData[t], {"_id"} \cup TeamIdNames))
    /\ \A k \in TimKeys(call.data.timData) \cap TimKeys(prev.data.timData) :
          \E c \in {call, prev} :
              TimRecordHolds(client[call.event_key].ss_tim, k[1], k[2], call.username,
                             Less(c.data.timData[k[1]][k[2]], {"_id"} \cup TimIdNames))

\* C13: every upsert that is applied leaves the record of its key holding
\* its document in full; a record changes only when an upsert is applied, so
\* it holds the document of the upsert of its key that was applied last; and
\* when two update requests of one username that ran at the same time have
\* both returned, every record both touched holds the data points of one of
\* the two, never a mixture.
C13_LastWriterWins ==
    [][/\ \A w \in Workers :
              Applies(w) =>
                  HoldsInFull(client'[inflight[w].event_key][Collection(w)],
                              inflight[w].ops[inflight[w].next])
       /\ client' # client => \E w \in Workers : Applies(w)
       /\ BothCompleted' => OneOfTheTwo']_vars

\* Both requests wrote team 100 with different data points; the one that
\* returned first was applied last, and the record holds its data points.
C13_Witness ==
    /\ BothCompleted
    /\ \E t \in DOMAIN call.data.teamData \cap DOMAIN prev.data.teamData :
          /\ "b" \in DOMAIN call.data.teamData[t]
          /\ prev.data.teamData[t] = [a |-> "9"]
          /\ TeamRecordHolds(client[call.event_key].ss_team, t, call.username, [a |-> "9"])

-----------------------------------------------------------------------------
(* C14: no atomicity across keys *)

\* The two update requests that ended last are of one username and one
\* database, both returned, and no request is being handled.
TwoReturned ==
    /\ call.op = "update" /\ prev.op = "update"
    /\ ~call.raised /\ ~prev.raised
    /\ call.username = prev.username /\ call.event_key = prev.event_key
    /\ \A w \in Workers : inflight[w].pc = "idle"

TeamPoints(c, t) == Less(c.data.teamData[t], {"_id"} \cup TeamIdNames)
TimPoints(c, k) == Less(c.data.timData[k[1]][k[2]], {"_id"} \cup TimIdNames)

\* A team key and a match-team key both requests wrote, each with its own
\* data points: one record holds those of x, the other those of y.
HoldsOf(x, y) ==
    \E t \in DOMAIN call.data.teamData \cap DOMAIN prev.data.teamData :
        \E k \in TimKeys(call.data.timData) \cap TimKeys(prev.data.timData) :
            /\ TeamPoints(call, t) # TeamPoints(prev, t)
            /\ TimPoints(call, k) # TimPoints(prev, k)
            /\ TeamRecordHolds(client[call.event_key].ss_team, t, call.username,
                               TeamPoints(x, t))
            /\ TimRecordHolds(client[call.event_key].ss_tim, k[1], k[2], call.username,
                              TimPoints(y, k))

Mixed == HoldsOf(call, prev) \/ HoldsOf(prev, call)

\* The database after the requests a and b handled one after the other, each
\* in one piece, from an empty database.
OneAfterTheOther(a, b) ==
    update(update(EmptyClient[a.event_key], a.data, a.username, a.order).db,
           b.data, b.username, b.order).db

\* C14, what handling one request after the other gives: an update that ran
\* with no other update under way and returned leaves the database as the
\* handler run in one piece leaves it, and two requests that have returned
\* leave one's data under one key and the other's under another only if
\* they ran at the same time.
C14_MixedOnlyWhenInterleaved ==
    /\ (UpdateOk /\ call.solo) =>
           DbAfter = update(DbBefore, call.data, call.username, call.order).db
    /\ (TwoReturned /\ Mixed) => ~call.solo

\* C14, what interleaving gives: the two requests have left the team record
\* with the data points of one and the match-team record with those of the
\* other, a database neither order of handling them one after the other
\* gives; and a get answered while the request that returned last was under
\* way holds one request's team data and none of the match-team data.
C14_Witness ==
    /\ TwoReturned /\ Mixed
    /\ ncalls = 2
    /\ client[call.event_key] # OneAfterTheOther(prev, call)
    /\ client[call.event_key] # OneAfterTheOther(call, prev)
    /\ response.op = "get"
    /\ response.username = call.username
    /\ response.view.timData = <<>>
    /\ \E c \in {call, prev} :
          \E t \in DOMAIN c.data.teamData :
              /\ DOMAIN response.view.teamData = {t}
              /\ response.view.teamData[t] = TeamPoints(c, t)

-----------------------------------------------------------------------------
(* C15: records are never deleted *)

\* The keys of the records of a collection.
KeysIn(coll, names) ==
    {[name \in names \cap DOMAIN coll[i] |-> coll[i][name]] : i \in 1..Len(coll)}

\* C15: no step of users, get or update, in whatever order or interleaving,
\* removes a key from a collection: the keys of ss_team and of ss_tim only
\* grow, and so do the teams and the (match, team) pairs get returns for a
\* username and the usernames users returns for a database.
C15_KeysOnlyGrow ==
    [][\A n \in Namespaces :
          /\ KeysIn(client[n].ss_team, TeamIdNames) \subseteq KeysIn(client'[n].ss_team, TeamIdNames)
          /\ KeysIn(client[n].ss_tim, TimIdNames) \subseteq KeysIn(client'[n].ss_tim, TimIdNames)
          /\ UsersSet(client[n]) \subseteq UsersSet(client'[n])
          /\ \A u \in Users :
                /\ DOMAIN get(client[n], u).view.teamData
                       \subseteq DOMAIN get(client'[n], u).view.teamData
                /\ TimKeys(get(client[n], u).view.timData)
                       \subseteq TimKeys(get(client'[n], u).view.timData)]_vars

\* An update has replaced the record of a team key, which held other data
\* points, and created the first record of ss_tim.
C15_Witness ==
    /\ UpdateOk /\ call.solo
    /\ DbBefore.ss_tim = <<>> /\ DbAfter.ss_tim # <<>>
    /\ \E t \in DOMAIN call.data.teamData :
          /\ TeamRecordsAt(DbBefore.ss_team, t, call.username) # {}
          /\ ~TeamRecordHolds(DbBefore.ss_team, t, call.username, TeamPoints(call, t))
          /\ TeamRecordHolds(DbAfter.ss_team, t, call.username, TeamPoints(call, t))
    /\ KeysIn(DbBefore.ss_team, TeamIdNames) = KeysIn(DbAfter.ss_team, TeamIdNames)

-----------------------------------------------------------------------------
(* C16: update touches only its own keys *)

\* doc is a record of the username of the last update under a key its body names.
OwnTeamRecord(doc) ==
    /\ Has(doc, "username", call.username)
    /\ "team_number" \in DOMAIN doc /\ doc["team_number"] \in DOMAIN call.data.teamData

OwnTimRecord(doc) ==
    /\ Has(doc, "username", call.username)
    /\ "match_number" \in DOMAIN doc /\ "team_number" \in DOMAIN doc
    /\ <<doc["match_number"], doc["team_number"]>> \in TimKeys(call.data.timData)

\* Every record of before but those at the places ownBefore is in after,
\* where it was and as it was, and every record of after that is new or
\* changed is at one of the places ownAfter.
OnlyOwnChanged(before, after, ownBefore, ownAfter) ==
    /\ Len(after) >= Len(before)
    /\ \A i \in 1..Len(before) : i \notin ownBefore => after[i] = before[i]
    /\ \A i \in 1..Len(after) : (i > Len(before) \/ after[i] # before[i]) => i \in ownAfter

OwnTeamRecords(coll) == {i \in 1..Len(coll) : OwnTeamRecord(coll[i])}
OwnTimRecords(coll) == {i \in 1..Len(coll) : OwnTimRecord(coll[i])}

\* C16: an update, whether it returns or raises, changes no record but the
\* ss_team records (t, username) for t in teamData and the ss_tim records
\* (m, t, username) for (m, t) in timData of its own database: the other
\* databases, the records of other usernames and the records of its username
\* under keys its body does not name are exactly as they were.
C16_OnlyOwnKeys ==
    UpdateDone =>
        /\ \A n \in Namespaces \ {call.event_key} : post[n] = pre[n]
        /\ OnlyOwnChanged(DbBefore.ss_team, DbAfter.ss_team,
                          OwnTeamRecords(DbBefore.ss_team), OwnTeamRecords(DbAfter.ss_team))
        /\ OnlyOwnChanged(DbBefore.ss_tim, DbAfter.ss_tim,
                          OwnTimRecords(DbBefore.ss_tim), OwnTimRecords(DbAfter.ss_tim))

\* The username of the update had records of two teams, and its body names
\* one of them, with new data points, and a match.
C16_Witness ==
    /\ UpdateOk
    /\ DbAfter.ss_tim # DbBefore.ss_tim
    /\ \E t \in DOMAIN call.data.teamData, o \in Teams \ DOMAIN call.data.teamData :
          /\ TeamRecordsAt(DbBefore.ss_team, o, call.username) # {}
          /\ TeamRecordsAt(DbBefore.ss_team, t, call.username) # {}
          /\ ~TeamRecordHolds(DbBefore.ss_team, t, call.username, TeamPoints(call, t))
          /\ TeamRecordHolds(DbAfter.ss_team, t, call.username, TeamPoints(call, t))

-----------------------------------------------------------------------------
(* C17: the team bulk write comes strictly before the TIM bulk write *)

\* The request worker w is handling: before its TIM bulk write is issued it
\* has written nothing to ss_tim, and once it is issued its team bulk write,
\* if it had operations, has been issued and has applied them all.
InOrder(w) ==
    LET f == inflight[w]
        teamOps == TeamBulkOps(f.in.data, f.username, f.in.order)
    IN  /\ f.pc = "team" =>
              /\ f.tim_writes = 0
              /\ f.solo => client[f.event_key].ss_tim = f.start[f.event_key].ss_tim
        /\ f.pc = "tim" =>
              /\ f.tim_writes = 1
              /\ f.team_writes = 1 <=> teamOps # <<>>
              /\ f.solo => client[f.event_key].ss_team =
                               AfterPrefix(f.start[f.event_key].ss_team, teamOps, Len(teamOps))

\* C17: within one update the bulk write to ss_tim is issued only after the
\* bulk write to ss_team has returned: while the team write is under way, and
\* when it has raised, the request has issued no write to ss_tim and (no other
\* update being under way) ss_tim is as the request found it; and whenever
\* its write to ss_tim has been issued, its team operations have all been
\* applied.
C17_TeamBeforeTim ==
    /\ \A w \in Workers : InOrder(w)
    /\ UpdateDone =>
          /\ call.raised_in = "team" =>
                /\ call.tim_writes = 0
                /\ call.solo => DbAfter.ss_tim = DbBefore.ss_tim
          /\ (call.tim_writes = 1 /\ call.solo) =>
                DbAfter.ss_team = AfterPrefix(DbBefore.ss_team, LastTeamOps, Len(LastTeamOps))

\* An update whose body has a match failed in its team write, after its
\* operation was applied, and left ss_tim alone; the next one is applying its
\* TIM operations, its team operation applied.
C17_Witness ==
    /\ UpdateDone /\ call.solo
    /\ call.raised_in = "team"
    /\ TimKeys(call.data.timData) # {}
    /\ DbAfter.ss_team # DbBefore.ss_team
    /\ DbAfter.ss_tim = DbBefore.ss_tim
    /\ \E w \in Workers :
          /\ inflight[w].pc = "tim" /\ inflight[w].next = 2 /\ inflight[w].solo
          /\ inflight[w].team_writes = 1
          /\ client[inflight[w].event_key].ss_tim # inflight[w].start[inflight[w].event_key].ss_tim

-----------------------------------------------------------------------------
(* C18: stored records are well formed *)

\* doc has each of the fields names, with a value that is a key of a kind
\* update files records under.
WellFormed(doc, names) ==
    /\ names \subseteq DOMAIN doc
    /\ "team_number" \in names => doc["team_number"] \in Teams
    /\ "match_number" \in names => doc["match_number"] \in Matches
    /\ "username" \in names => doc["username"] \in Users

\* C18: every record of ss_team has the fields team_number and username and
\* every record of ss_tim the fields match_number, team_number and username,
\* holding the team, the match and the username it was upserted under, never
\* a value of the body; each key of the body of an update that returned has
\* its record; and get raises for no username on no database.
C18_RecordsWellFormed ==
    /\ \A n \in Namespaces :
          /\ \A i \in 1..Len(client[n].ss_team) : WellFormed(client[n].ss_team[i], TeamIdNames)
          /\ \A i \in 1..Len(client[n].ss_tim) : WellFormed(client[n].ss_tim[i], TimIdNames)
          /\ \A u \in Users : ~get(client[n], u).raised
    /\ UpdateOk =>
          /\ \A t \in DOMAIN call.data.teamData :
                TeamRecordsAt(DbAfter.ss_team, t, call.username) # {}
          /\ \A k \in TimKeys(call.data.timData) :
                TimRecordsAt(DbAfter.ss_tim, k[1], k[2], call.username) # {}
    /\ response.op = "get" => ~response.raised

\* A get answered right after an update whose timData dict named another
\* match, another team and another username: it returns the dict under the
\* match and the team of its keys, without those names.
C18_Witness ==
    /\ GetAfterUpdate /\ UpdateOk
    /\ call.username = "bob"
    /\ \E k \in TimKeys(call.data.timData) :
          /\ Has(call.data.timData[k[1]][k[2]], "match_number", "99")
          /\ Has(call.data.timData[k[1]][k[2]], "username", "alice")
          /\ k[1] \in DOMAIN response.view.timData
          /\ k[2] \in DOMAIN response.view.timData[k[1]]
          /\ response.view.timData[k[1]][k[2]] = [c |-> "3"]

====
